---- MODULE Spec2Model ----
(***************************************************************************)
(* Model of bcftbx/mock.py: the MockIlluminaRun and MockIlluminaData       *)
(* classes, the in-memory project/sample/fastq tree, and the directory     *)
(* trees they create on and remove from the filesystem.                    *)
(*                                                                         *)
(* Names are strings; a path is the sequence of its components below the   *)
(* instance's top_dir (os.path.join appends a component).  The filesystem  *)
(* is a function from paths to entries (a directory, or a file with its    *)
(* content).  One state holds one instance, of either class, chosen at     *)
(* construction.                                                           *)
(***************************************************************************)
EXTENDS Integers, Sequences, FiniteSets, TLC

VARIABLES
    kind,                     \* class of the instance
    fs,                       \* filesystem below top_dir: path -> entry
    self_name,                \* self._name / self.__name
    self_created,             \* self._created / self.__created
    self_platform,            \* MockIlluminaRun._platform
    self_package,             \* MockIlluminaData.__package
    self_paired_end,          \* MockIlluminaData.__paired_end
    self_no_lane_splitting,   \* MockIlluminaData.__no_lane_splitting
    arg_no_lane_splitting,    \* the no_lane_splitting argument of __init__
    self_projects,            \* MockIlluminaData.__projects
    ncalls,                   \* number of population calls made so far
    materialized,             \* history: a create has completed and no remove
                              \* has deleted its tree since
    pending,                  \* history: fastq names added to the tree since
                              \* the last create that completed
    lastOp,                   \* history: the last call, its arguments, the
                              \* error it raised ("" if none) and the values
                              \* created, materialized and pending had when
                              \* it was made
    inst_pc,                  \* two instances on one path: where each is in
                              \* its create
    inst_created,             \* two instances on one path: the created flag
                              \* of each
    tree_makers               \* history: the instances whose create built
                              \* the tree that is on disk

vars == <<kind, fs, self_name, self_created, self_platform, self_package,
          self_paired_end, self_no_lane_splitting, arg_no_lane_splitting,
          self_projects, ncalls, materialized, pending, lastOp,
          inst_pc, inst_created, tree_makers>>

\* the state used only where two instances share a path
Instances == {"a", "b"}
sharedVars == <<inst_pc, inst_created, tree_makers>>

(***************************************************************************)
(* Bounds of the model.                                                    *)
(***************************************************************************)
\* population calls (add_*) made on one instance
MaxCalls == 2
\* an injected filesystem fault hits one of the first MaxFaultAt filesystem
\* calls of create (call 1 is the mkdir of the top-level directory)
MaxFaultAt == 2

(***************************************************************************)
(* Strings as Python 2 handles them.                                       *)
(***************************************************************************)
\* the characters that occur in names, in ASCII order
Chars == ".0123456789ABCDEFGHIJKLMNOPQRSTUVWXYZ_abcdefghijklmnopqrstuvwxyz"

CharAt == [i \in 1..Len(Chars) |-> SubSeq(Chars, i, i)]

\* ord(c), counted within Chars
OrdOf == [c \in {CharAt[i] : i \in DOMAIN CharAt} |->
            CHOOSE i \in DOMAIN CharAt : CharAt[i] = c]
Ord(c) == OrdOf[c]

\* a[1..lo] = b[1..lo] and a[1..hi] # b[1..hi]: the first position where a
\* and b differ, found by halving
RECURSIVE FirstDiff(_, _, _, _)
FirstDiff(a, b, lo, hi) ==
    IF hi - lo = 1 THEN hi
    ELSE LET mid == (lo + hi) \div 2
         IN  IF SubSeq(a, lo + 1, mid) = SubSeq(b, lo + 1, mid)
             THEN FirstDiff(a, b, mid, hi)
             ELSE FirstDiff(a, b, lo, mid)

\* str.__lt__: byte-wise lexicographic order
StrLess(a, b) ==
    LET n == IF Len(a) < Len(b) THEN Len(a) ELSE Len(b)
    IN  IF SubSeq(a, 1, n) = SubSeq(b, 1, n) THEN Len(a) < Len(b)
        ELSE LET i == FirstDiff(a, b, 0, n)
             IN  Ord(SubSeq(a, i, i)) < Ord(SubSeq(b, i, i))

\* s.startswith(prefix)
startswith(s, prefix) ==
    /\ Len(s) >= Len(prefix)
    /\ SubSeq(s, 1, Len(prefix)) = prefix

\* s[n:]
SliceFrom(s, n) == IF n >= Len(s) THEN "" ELSE SubSeq(s, n + 1, Len(s))

\* index of the first occurrence of character c in s, 0 if there is none
RECURSIVE IndexFrom(_, _, _)
IndexFrom(s, c, i) ==
    IF i > Len(s) THEN 0
    ELSE IF SubSeq(s, i, i) = c THEN i
    ELSE IndexFrom(s, c, i + 1)

\* s.split(sep) for a one-character separator
RECURSIVE split(_, _)
split(s, sep) ==
    LET i == IndexFrom(s, sep, 1)
    IN  IF i = 0 THEN <<s>>
        ELSE <<SubSeq(s, 1, i - 1)>> \o split(SliceFrom(s, i), sep)

\* sep.join(fields)
RECURSIVE join(_, _)
join(sep, fields) ==
    IF fields = <<>> THEN ""
    ELSE IF Len(fields) = 1 THEN fields[1]
    ELSE fields[1] \o sep \o join(sep, Tail(fields))

\* s.isdigit()
isdigit(s) ==
    /\ s # ""
    /\ \A i \in 1..Len(s) : Ord(SubSeq(s, i, i)) \in 2..11

\* "%d" % n
FmtD(n) == ToString(n)

\* "%03d" % n
Fmt03d(n) ==
    IF n < 10 THEN "00" \o ToString(n)
    ELSE IF n < 100 THEN "0" \o ToString(n)
    ELSE ToString(n)

\* list.sort() on a list of strings
RECURSIVE Insert(_, _)
Insert(sorted, x) ==
    IF sorted = <<>> THEN <<x>>
    ELSE IF StrLess(x, Head(sorted)) THEN <<x>> \o sorted
    ELSE <<Head(sorted)>> \o Insert(Tail(sorted), x)

RECURSIVE sort(_)
sort(list) ==
    IF list = <<>> THEN <<>>
    ELSE Insert(sort(SubSeq(list, 1, Len(list) - 1)), list[Len(list)])

\* the elements of a set of strings as an ascending list
RECURSIVE SortedSeq(_)
SortedSeq(S) ==
    IF S = {} THEN <<>>
    ELSE LET m == CHOOSE x \in S : \A y \in S : ~StrLess(y, x)
         IN  <<m>> \o SortedSeq(S \ {m})

\* the elements of a list
Range(list) == {list[i] : i \in 1..Len(list)}

\* a dictionary with no key
EmptyDict == [k \in {} |-> <<>>]

(***************************************************************************)
(* The filesystem.                                                         *)
(***************************************************************************)
Dir == [type |-> "dir", content |-> ""]
File(content) == [type |-> "file", content |-> content]

\* os.path.exists, os.path.isdir
exists(F, p) == p \in DOMAIN F
isdir(F, p) == p \in DOMAIN F /\ F[p].type = "dir"

\* the directory a path lies in; top_dir itself (the empty path) exists
Parent(p) == SubSeq(p, 1, Len(p) - 1)
ParentIsDir(F, p) == Len(p) = 1 \/ isdir(F, Parent(p))

\* p lies at or under q
Under(p, q) == Len(p) >= Len(q) /\ SubSeq(p, 1, Len(q)) = q

\* os.mkdir
os_mkdir(F, p) ==
    IF exists(F, p) \/ ~ParentIsDir(F, p)
    THEN [fs |-> F, err |-> "OSError"]
    ELSE [fs |-> F @@ (p :> Dir), err |-> ""]

\* bcftbx.utils.mkdir: makes the directory unless it is there already
mkdir(F, p) ==
    IF isdir(F, p) THEN [fs |-> F, err |-> ""] ELSE os_mkdir(F, p)

\* open(p,'w') ... write(content) ... close(); content "" for open(p,'wb+').close()
open_write(F, p, content) ==
    IF isdir(F, p) \/ ~ParentIsDir(F, p)
    THEN [fs |-> F, err |-> "IOError"]
    ELSE [fs |-> [q \in DOMAIN F \cup {p} |->
                    IF q = p THEN File(content) ELSE F[q]],
          err |-> ""]

\* rmtree that deletes the files and leaves the directories
rmtree_files_only(F, p) ==
    IF ~isdir(F, p)
    THEN [fs |-> F, err |-> "OSError"]
    ELSE [fs |-> [q \in {x \in DOMAIN F : ~Under(x, p) \/ F[x].type = "dir"} |-> F[q]],
          err |-> ""]

\* shutil.rmtree
rmtree(F, p) ==
    IF ~isdir(F, p)
    THEN [fs |-> F, err |-> "OSError"]
    ELSE [fs |-> [q \in {x \in DOMAIN F : ~Under(x, p)} |-> F[q]], err |-> ""]

\* one filesystem call of create
MkdirCall(p) == [call |-> "mkdir", path |-> p, content |-> ""]
TouchCall(p) == [call |-> "open", path |-> p, content |-> ""]
WriteCall(p, content) == [call |-> "open", path |-> p, content |-> content]

DoCall(F, c) ==
    IF c.call = "mkdir" THEN mkdir(F, c.path)
    ELSE open_write(F, c.path, c.content)

\* the calls of one create, made in order until one raises: `done` counts the
\* calls that returned.  Call number faultAt (0: none) raises an error of the
\* operating system's (permissions, disk full) instead of acting.
RECURSIVE Exec(_, _, _, _)
Exec(F, calls, i, faultAt) ==
    IF i > Len(calls) THEN [fs |-> F, err |-> "", done |-> i - 1]
    ELSE IF i = faultAt THEN [fs |-> F, err |-> "OSError", done |-> i - 1]
    ELSE LET r == DoCall(F, calls[i])
         IN  IF r.err # "" THEN [fs |-> F, err |-> r.err, done |-> i - 1]
             ELSE Exec(r.fs, calls, i + 1, faultAt)

(***************************************************************************)
(* MockIlluminaData: the in-memory tree.  __projects maps a project key to *)
(* a dictionary from sample keys to the sorted list of fastq names.        *)
(***************************************************************************)
undetermined_dir == "Undetermined_indices"
unaligned_dir_name == "Unaligned"

\* lanes=None
None == [none |-> TRUE, seq |-> <<>>]
Lanes(seq) == [none |-> FALSE, seq |-> seq]

\* __project_dir that keeps the name as it is given
project_dir_keep(project_name) == project_name

\* MockIlluminaData.__project_dir
project_dir(project_name) ==
    IF startswith(project_name, "Project_")
    THEN SliceFrom(project_name, 8)
    ELSE project_name

\* MockIlluminaData.__sample_dir
sample_dir(sample_name) ==
    IF startswith(sample_name, "Sample_")
    THEN SliceFrom(sample_name, 7)
    ELSE sample_name

\* add_project, as a function of the tree
tree_add_project(P, project_name) ==
    LET pd == project_dir(project_name)
    IN  IF pd \notin DOMAIN P THEN P @@ (pd :> EmptyDict) ELSE P

\* add_sample, as a function of the tree
tree_add_sample(P, project_name, sample_name) ==
    LET P1 == tree_add_project(P, project_name)
        pd == project_dir(project_name)
        sd == sample_dir(sample_name)
    IN  IF sd \notin DOMAIN P1[pd]
        THEN [P1 EXCEPT ![pd] = @ @@ (sd :> <<>>)]
        ELSE P1

\* add_fastq that appends and leaves the list as it is
tree_add_fastq_unsorted(P, project_name, sample_name, fastq) ==
    LET P1 == tree_add_sample(P, project_name, sample_name)
        pd == project_dir(project_name)
        sd == sample_dir(sample_name)
    IN  [P1 EXCEPT ![pd][sd] = Append(@, fastq)]

\* add_fastq, as a function of the tree
tree_add_fastq(P, project_name, sample_name, fastq) ==
    LET P1 == tree_add_sample(P, project_name, sample_name)
        pd == project_dir(project_name)
        sd == sample_dir(sample_name)
    IN  [P1 EXCEPT ![pd][sd] = sort(Append(@, fastq))]

\* the reads of add_fastq_batch
batch_reads(paired_end) == IF paired_end THEN <<1, 2>> ELSE <<1>>

\* batch_names that puts the lane into every name
batch_names_lanes_always(paired_end, no_lane_splitting, fastq_base, fastq_ext, lanes) ==
    LET reads == batch_reads(paired_end)
        nr == Len(reads)
    IN  [k \in 1..(Len(lanes.seq) * nr) |->
            fastq_base \o "_L" \o Fmt03d(lanes.seq[((k - 1) \div nr) + 1])
                \o "_R" \o FmtD(reads[((k - 1) % nr) + 1])
                \o "_001." \o fastq_ext]

\* the names add_fastq_batch builds, in the order it adds them
batch_names(paired_end, no_lane_splitting, fastq_base, fastq_ext, lanes) ==
    LET reads == batch_reads(paired_end)
        nr == Len(reads)
    IN  IF ~no_lane_splitting
        THEN [k \in 1..(Len(lanes.seq) * nr) |->
                fastq_base \o "_L" \o Fmt03d(lanes.seq[((k - 1) \div nr) + 1])
                    \o "_R" \o FmtD(reads[((k - 1) % nr) + 1])
                    \o "_001." \o fastq_ext]
        ELSE [k \in 1..nr |->
                fastq_base \o "_R" \o FmtD(reads[k]) \o "_001." \o fastq_ext]

RECURSIVE tree_add_fastqs(_, _, _, _)
tree_add_fastqs(P, project_name, sample_name, fastqs) ==
    IF fastqs = <<>> THEN P
    ELSE tree_add_fastqs(tree_add_fastq(P, project_name, sample_name, Head(fastqs)),
                         project_name, sample_name, Tail(fastqs))

\* add_fastq_batch, as a function of the tree; iterating over lanes=None is a
\* TypeError, raised before anything is added
batch_raises(no_lane_splitting, lanes) == ~no_lane_splitting /\ lanes.none

tree_add_fastq_batch(P, pe, nls, project_name, sample_name, fastq_base, fastq_ext, lanes) ==
    tree_add_fastqs(P, project_name, sample_name,
                    batch_names(pe, nls, fastq_base, fastq_ext, lanes))

\* the loop of add_undetermined with the modern base name for both packages
RECURSIVE tree_add_undetermined_lanes_s0(_, _, _, _)
tree_add_undetermined_lanes_s0(P, package, paired_end, laneseq) ==
    IF laneseq = <<>> THEN P
    ELSE LET lane == Head(laneseq)
             sample_name == "lane" \o FmtD(lane)
             P1 == tree_add_sample(P, undetermined_dir, sample_name)
             P2 == tree_add_fastq_batch(P1, paired_end, FALSE, undetermined_dir,
                                        sample_name, "Undetermined_S0", "fastq.gz",
                                        Lanes(<<lane>>))
         IN  tree_add_undetermined_lanes_s0(P2, package, paired_end, Tail(laneseq))

\* add_undetermined that also enters a project named "Undetermined"
tree_add_undetermined_and_project(P, package, paired_end, no_lane_splitting, lanes) ==
    tree_add_project(
        IF ~no_lane_splitting
        THEN tree_add_undetermined_lanes_s0(P, "bcl2fastq2", paired_end, lanes.seq)
        ELSE tree_add_sample(P, undetermined_dir, "undetermined"),
        "Undetermined")

\* add_undetermined, as a function of the tree
RECURSIVE tree_add_undetermined_lanes(_, _, _, _)
tree_add_undetermined_lanes(P, package, paired_end, laneseq) ==
    IF laneseq = <<>> THEN P
    ELSE LET lane == Head(laneseq)
             sample_name == "lane" \o FmtD(lane)
             fastq_base == IF package = "casava"
                           THEN "lane" \o FmtD(lane) \o "_Undetermined"
                           ELSE "Undetermined_S0"
             P1 == tree_add_sample(P, undetermined_dir, sample_name)
             P2 == tree_add_fastq_batch(P1, paired_end, FALSE, undetermined_dir,
                                        sample_name, fastq_base, "fastq.gz",
                                        Lanes(<<lane>>))
         IN  tree_add_undetermined_lanes(P2, package, paired_end, Tail(laneseq))

tree_add_undetermined(P, package, paired_end, no_lane_splitting, lanes) ==
    IF ~no_lane_splitting
    THEN tree_add_undetermined_lanes(P, package, paired_end, lanes.seq)
    ELSE tree_add_fastq_batch(
             tree_add_sample(P, undetermined_dir, "undetermined"),
             paired_end, TRUE, undetermined_dir, "undetermined",
             "Undetermined_S0", "fastq.gz", None)

(***************************************************************************)
(* MockIlluminaData: the read accessors.  A lookup of a key that is not    *)
(* there raises KeyError.                                                  *)
(***************************************************************************)
KeyError == <<"KeyError">>

\* MockIlluminaData.projects, as a function of the tree
tree_projects(P) ==
    LET keys == SortedSeq(DOMAIN P)
    IN  sort([i \in 1..Len(keys) |->
                IF startswith(keys[i], "Project_")
                THEN split(keys[i], "_")[2]
                ELSE keys[i]])

\* MockIlluminaData.projects
projects == tree_projects(self_projects)

\* MockIlluminaData.has_undetermined
has_undetermined == undetermined_dir \in DOMAIN self_projects

\* MockIlluminaData.samples_in_project, as a function of the tree
tree_samples_in_project(P, project_name) ==
    LET pd == project_dir(project_name)
    IN  IF pd \notin DOMAIN P THEN KeyError
        ELSE LET keys == SortedSeq(DOMAIN P[pd])
             IN  sort([i \in 1..Len(keys) |->
                         IF startswith(keys[i], "Sample_")
                         THEN split(keys[i], "_")[2]
                         ELSE keys[i]])

\* MockIlluminaData.samples_in_project
samples_in_project(project_name) == tree_samples_in_project(self_projects, project_name)

\* MockIlluminaData.fastqs_in_sample, as a function of the tree
tree_fastqs_in_sample(P, project_name, sample_name) ==
    LET pd == project_dir(project_name)
        sd == sample_dir(sample_name)
    IN  IF pd \notin DOMAIN P THEN KeyError
        ELSE IF sd \notin DOMAIN P[pd] THEN KeyError
        ELSE P[pd][sd]

\* MockIlluminaData.fastqs_in_sample
fastqs_in_sample(project_name, sample_name) == tree_fastqs_in_sample(self_projects, project_name, sample_name)

(***************************************************************************)
(* MockIlluminaData: the directory tree create builds.                     *)
(***************************************************************************)
\* MockIlluminaData.dirn, MockIlluminaRun.dirn
dirn == <<self_name>>

\* MockIlluminaData.unaligned_dir
unaligned_dir == Append(dirn, unaligned_dir_name)

\* the concatenation of a list of lists
RECURSIVE Flatten(_)
Flatten(lists) ==
    IF lists = <<>> THEN <<>> ELSE Head(lists) \o Flatten(Tail(lists))

\* IlluminaFastq(fastq).sample_name: the name up to its first "." is split at
\* "_"; from the end it holds the set number, the read, the lane (absent
\* without lane splitting) and the barcode or sample number; what precedes
\* them is the sample name
IlluminaFastq_sample_name(fastq) ==
    LET dot == IndexFrom(fastq, ".", 1)
        base == IF dot = 0 THEN fastq ELSE SubSeq(fastq, 1, dot - 1)
        fields == split(base, "_")
        n == Len(fields)
        has_lane == /\ n >= 3
                    /\ startswith(fields[n - 2], "L")
                    /\ isdigit(SliceFrom(fields[n - 2], 1))
        nname == (IF has_lane THEN n - 3 ELSE n - 2) - 1
    IN  IF nname < 1 THEN "" ELSE join("_", SubSeq(fields, 1, nname))

\* _populate_casava that makes the directories and touches no file
populate_casava_no_files(P) ==
    LET pkeys == SortedSeq(DOMAIN P)
    IN  Flatten([i \in 1..Len(pkeys) |->
          LET project_dirn == Append(unaligned_dir, "Project_" \o pkeys[i])
              skeys == SortedSeq(DOMAIN P[pkeys[i]])
          IN  <<MkdirCall(project_dirn)>> \o
              [j \in 1..Len(skeys) |->
                  MkdirCall(Append(project_dirn, "Sample_" \o skeys[j]))]])

\* _populate_casava that prefixes the undetermined project like any other
populate_casava_prefix_all(P) ==
    LET pkeys == SortedSeq(DOMAIN P)
    IN  Flatten([i \in 1..Len(pkeys) |->
          LET project_dirn == Append(unaligned_dir, "Project_" \o pkeys[i])
              skeys == SortedSeq(DOMAIN P[pkeys[i]])
          IN  <<MkdirCall(project_dirn)>> \o
              Flatten([j \in 1..Len(skeys) |->
                LET sample_dirn == Append(project_dirn, "Sample_" \o skeys[j])
                    fastqs == P[pkeys[i]][skeys[j]]
                IN  <<MkdirCall(sample_dirn)>> \o
                    [k \in 1..Len(fastqs) |->
                        TouchCall(Append(sample_dirn, fastqs[k]))]])])

\* MockIlluminaData._populate_casava: its filesystem calls.  Dictionaries are
\* walked in ascending key order here.
populate_casava(P) ==
    LET pkeys == SortedSeq(DOMAIN P)
    IN  Flatten([i \in 1..Len(pkeys) |->
          LET project_name == pkeys[i]
              project_dirn ==
                  IF project_name = undetermined_dir
                  THEN Append(unaligned_dir, project_name)
                  ELSE Append(unaligned_dir, "Project_" \o project_name)
              skeys == SortedSeq(DOMAIN P[project_name])
          IN  <<MkdirCall(project_dirn)>> \o
              Flatten([j \in 1..Len(skeys) |->
                LET sample_name == skeys[j]
                    sample_dirn == Append(project_dirn, "Sample_" \o sample_name)
                    fastqs == P[project_name][sample_name]
                IN  <<MkdirCall(sample_dirn)>> \o
                    [k \in 1..Len(fastqs) |->
                        TouchCall(Append(sample_dirn, fastqs[k]))]])])

\* where _populate_bcl2fastq2 puts a fastq of a sample
bcl2fastq2_needs_sample_dir(sample_name, fastq) ==
    LET fq_sample_name == IlluminaFastq_sample_name(fastq)
    IN  fq_sample_name # sample_name /\ fq_sample_name # "Undetermined"

\* _populate_bcl2fastq2 that places all fastqs of a sample as it places the
\* first of them
populate_bcl2fastq2_per_sample(P) ==
    LET pkeys == SortedSeq(DOMAIN P)
    IN  Flatten([i \in 1..Len(pkeys) |->
          LET project_name == pkeys[i]
              project_dirn ==
                  IF project_name = undetermined_dir
                  THEN unaligned_dir
                  ELSE Append(unaligned_dir, project_name)
              skeys == SortedSeq(DOMAIN P[project_name])
          IN  <<MkdirCall(project_dirn)>> \o
              Flatten([j \in 1..Len(skeys) |->
                LET sample_name == skeys[j]
                    fastqs == P[project_name][sample_name]
                IN  Flatten([k \in 1..Len(fastqs) |->
                      IF bcl2fastq2_needs_sample_dir(sample_name, fastqs[1])
                      THEN LET sample_dirn == Append(project_dirn, sample_name)
                           IN  <<MkdirCall(sample_dirn),
                                 TouchCall(Append(sample_dirn, fastqs[k]))>>
                      ELSE <<TouchCall(Append(project_dirn, fastqs[k]))>>])])])

\* _populate_bcl2fastq2 that gives the undetermined project a directory of its
\* own
populate_bcl2fastq2_nested(P) ==
    LET pkeys == SortedSeq(DOMAIN P)
    IN  Flatten([i \in 1..Len(pkeys) |->
          LET project_name == pkeys[i]
              project_dirn == Append(unaligned_dir, project_name)
              skeys == SortedSeq(DOMAIN P[project_name])
          IN  <<MkdirCall(project_dirn)>> \o
              Flatten([j \in 1..Len(skeys) |->
                LET sample_name == skeys[j]
                    fastqs == P[project_name][sample_name]
                IN  Flatten([k \in 1..Len(fastqs) |->
                      IF bcl2fastq2_needs_sample_dir(sample_name, fastqs[k])
                      THEN LET sample_dirn == Append(project_dirn, sample_name)
                           IN  <<MkdirCall(sample_dirn),
                                 TouchCall(Append(sample_dirn, fastqs[k]))>>
                      ELSE <<TouchCall(Append(project_dirn, fastqs[k]))>>])])])

\* MockIlluminaData._populate_bcl2fastq2: its filesystem calls
populate_bcl2fastq2(P) ==
    LET pkeys == SortedSeq(DOMAIN P)
    IN  Flatten([i \in 1..Len(pkeys) |->
          LET project_name == pkeys[i]
              project_dirn ==
                  IF project_name = undetermined_dir
                  THEN unaligned_dir
                  ELSE Append(unaligned_dir, project_name)
              skeys == SortedSeq(DOMAIN P[project_name])
          IN  <<MkdirCall(project_dirn)>> \o
              Flatten([j \in 1..Len(skeys) |->
                LET sample_name == skeys[j]
                    fastqs == P[project_name][sample_name]
                IN  Flatten([k \in 1..Len(fastqs) |->
                      IF bcl2fastq2_needs_sample_dir(sample_name, fastqs[k])
                      THEN LET sample_dirn == Append(project_dirn, sample_name)
                           IN  <<MkdirCall(sample_dirn),
                                 TouchCall(Append(sample_dirn, fastqs[k]))>>
                      ELSE <<TouchCall(Append(project_dirn, fastqs[k]))>>])])])

\* create that makes the two top directories and nothing below them
data_create_calls_bare == <<MkdirCall(dirn), MkdirCall(unaligned_dir)>>

\* MockIlluminaData.create: its filesystem calls once the target is known not
\* to exist
data_create_calls ==
    <<MkdirCall(dirn), MkdirCall(unaligned_dir)>> \o
    (IF self_package = "casava" THEN populate_casava(self_projects)
     ELSE populate_bcl2fastq2(self_projects))

(***************************************************************************)
(* MockIlluminaRun: the directory tree create builds.                      *)
(***************************************************************************)
Platforms == {"miseq", "hiseq", "nextseq"}

miseq_nlanes == 1
miseq_ntiles == 12
miseq_ncycles == 218
hiseq_nlanes == 8
hiseq_ntiles == 12
hiseq_ncycles == 218
nextseq_nlanes == 4
nextseq_ntiles == 158
\* the tiles of _create_miseq and _create_hiseq are numbered from here
first_tile == 1101

nlanes(platform) ==
    CASE platform = "miseq" -> miseq_nlanes
      [] platform = "hiseq" -> hiseq_nlanes
      [] platform = "nextseq" -> nextseq_nlanes

ntiles(platform) ==
    CASE platform = "miseq" -> miseq_ntiles
      [] platform = "hiseq" -> hiseq_ntiles
      [] platform = "nextseq" -> nextseq_ntiles

ncycles(platform) ==
    CASE platform = "miseq" -> miseq_ncycles
      [] platform = "hiseq" -> hiseq_ncycles

bcl_ext(platform) ==
    CASE platform = "miseq" -> ".bcl"
      [] platform = "hiseq" -> ".bcl.gz"
      [] platform = "nextseq" -> ".bcl.bgzf"

\* the position files are .locs for MISeq and NextSeq, .clocs for HISeq
locs_ext(platform) == IF platform = "hiseq" THEN "clocs" ELSE "locs"

\* MockIlluminaRun._path
run_path(dirs) == dirn \o dirs

Intensities == <<"Data", "Intensities">>
BaseCalls == <<"Data", "Intensities", "BaseCalls">>
LaneDir(i) == "L" \o Fmt03d(i)
CycleDir(k) == "C" \o FmtD(k) \o ".1"
Tiles(platform) == first_tile..(first_tile + ntiles(platform) - 1)

\* RunInfo.xml: the template rendered with the run name (the elements that
\* differ between the platforms, the <Reads> block left out)
run_info_xml(platform, name) ==
    CASE platform = "miseq" ->
           "<RunInfo Version=2><Run Id=" \o name \o " Number=1>"
           \o "<Flowcell>00000000-ABCD1</Flowcell><Instrument>M00001</Instrument>"
           \o "<FlowcellLayout LaneCount=1 SurfaceCount=2 SwathCount=1 TileCount=19 />"
      [] platform = "hiseq" ->
           "<RunInfo Version=2><Run Id=" \o name \o " Number=2>"
           \o "<Flowcell>A00NAABXX</Flowcell><Instrument>H00002</Instrument>"
           \o "<FlowcellLayout LaneCount=8 SurfaceCount=2 SwathCount=3 TileCount=16 />"
           \o "<AlignToPhiX>"
      [] platform = "nextseq" ->
           "<RunInfo Version=4><Run Id=" \o name \o " Number=1>"
           \o "<Flowcell>ABC1234XX</Flowcell><Instrument>N000003</Instrument>"
           \o "<FlowcellLayout LaneCount=4 SurfaceCount=2 SwathCount=3 TileCount=12"
           \o " SectionPerLane=3 LanePerSection=2><ImageDimensions><ImageChannels>"

\* SampleSheet.csv: its [Data] header line
sample_sheet_csv(platform) ==
    IF platform = "miseq"
    THEN "[Header],,,,,,,,,/[Reads]/[Settings]/[Data]/Sample_ID,Sample_Name,..."
    ELSE "[Header],,,,,,,,,,/[Reads]/[Settings]/[Data]/Lane,Sample_ID,Sample_Name,..."

\* the directories and files of _create_miseq and _create_hiseq
seq_dirs(platform) ==
    {run_path(<<"Data">>), run_path(Intensities), run_path(BaseCalls)}
    \cup {run_path(Intensities \o <<LaneDir(i)>>) : i \in 1..nlanes(platform)}
    \cup {run_path(BaseCalls \o <<LaneDir(i)>>) : i \in 1..nlanes(platform)}
    \cup {run_path(BaseCalls \o <<LaneDir(i[1]), CycleDir(i[2])>>) :
            i \in (1..nlanes(platform)) \X (1..ncycles(platform))}

seq_empty_files(platform) ==
    {run_path(Intensities \o <<LaneDir(x[1]),
                "s_" \o FmtD(x[1]) \o "_" \o FmtD(x[2]) \o "." \o locs_ext(platform)>>) :
        x \in (1..nlanes(platform)) \X Tiles(platform)}
    \cup {run_path(BaseCalls \o <<LaneDir(x[1]),
                "s_" \o FmtD(x[1]) \o "_" \o FmtD(x[2]) \o x[3]>>) :
        x \in (1..nlanes(platform)) \X Tiles(platform) \X {".control", ".filter"}}
    \cup {run_path(BaseCalls \o <<LaneDir(x[1]), CycleDir(x[2]),
                "s_" \o FmtD(x[1]) \o "_" \o FmtD(x[3]) \o x[4]>>) :
        x \in (1..nlanes(platform)) \X (1..ncycles(platform)) \X Tiles(platform)
              \X {"." \o bcl_ext(platform), ".stats"}}
    \cup {run_path(Intensities \o <<"config.xml">>),
          run_path(BaseCalls \o <<"config.xml">>)}

\* the directories and files of _create_nextseq
\* the directories of _create_nextseq without InterOp
nextseq_dirs_no_interop ==
    {run_path(<<"Data">>), run_path(Intensities), run_path(BaseCalls)}
    \cup {run_path(Intensities \o <<LaneDir(i)>>) : i \in 1..nextseq_nlanes}
    \cup {run_path(BaseCalls \o <<LaneDir(i)>>) : i \in 1..nextseq_nlanes}

nextseq_dirs ==
    {run_path(<<"Data">>), run_path(Intensities), run_path(BaseCalls),
     run_path(<<"InterOp">>)}
    \cup {run_path(Intensities \o <<LaneDir(i)>>) : i \in 1..nextseq_nlanes}
    \cup {run_path(BaseCalls \o <<LaneDir(i)>>) : i \in 1..nextseq_nlanes}

nextseq_empty_files ==
    {run_path(Intensities \o <<LaneDir(i), "s_" \o FmtD(i) \o ".locs">>) :
        i \in 1..nextseq_nlanes}
    \cup {run_path(BaseCalls \o <<LaneDir(x[1]), "s_" \o FmtD(x[1]) \o x[2]>>) :
        x \in (1..nextseq_nlanes) \X {".bci", ".filter"}}
    \cup {run_path(BaseCalls \o <<LaneDir(x[1]),
                (IF x[2] < 10 THEN "000" ELSE IF x[2] < 100 THEN "00"
                 ELSE IF x[2] < 1000 THEN "0" ELSE "") \o FmtD(x[2])
                \o bcl_ext("nextseq") \o x[3]>>) :
        x \in (1..nextseq_nlanes) \X (1..nextseq_ntiles) \X {"", ".bci"}}

\* everything _create_miseq, _create_hiseq or _create_nextseq makes below the
\* top-level directory
run_tree(platform) ==
    LET dirs == IF platform = "nextseq" THEN nextseq_dirs ELSE seq_dirs(platform)
        empty == IF platform = "nextseq" THEN nextseq_empty_files
                 ELSE seq_empty_files(platform)
        texts == {run_path(<<"RunInfo.xml">>)}
                 \cup (IF platform = "nextseq" THEN {}
                       ELSE {run_path(BaseCalls \o <<"SampleSheet.csv">>)})
    IN  [p \in dirs \cup empty \cup texts |->
            IF p \in dirs THEN Dir
            ELSE IF p \in empty THEN File("")
            ELSE IF p = run_path(<<"RunInfo.xml">>)
                 THEN File(run_info_xml(platform, self_name))
            ELSE File(sample_sheet_csv(platform))]

\* the first filesystem calls of MockIlluminaRun.create, in order
run_head_calls(platform) ==
    <<MkdirCall(dirn),
      MkdirCall(run_path(<<"Data">>)),
      MkdirCall(run_path(Intensities)),
      MkdirCall(run_path(BaseCalls))>>
    \o (IF platform = "nextseq" THEN <<MkdirCall(run_path(<<"InterOp">>))>>
        ELSE <<>>)
    \o <<MkdirCall(run_path(Intensities \o <<LaneDir(1)>>)),
         TouchCall(run_path(Intensities \o <<LaneDir(1),
             IF platform = "nextseq" THEN "s_1.locs"
             ELSE "s_1_" \o FmtD(first_tile) \o "." \o locs_ext(platform)>>))>>

(***************************************************************************)
(* The arguments the calls are made with.                                  *)
(***************************************************************************)
ProjectNames == {"PJB", "Project_PJB", "Undetermined_indices"}
\* the (project, sample) names add_sample is called with
SampleTargets == {<<"PJB", "PJB1">>,
                  <<"Project_PJB", "Sample_PJB1">>,
                  <<"Project_Project_PJB", "Sample_Sample_PJB1">>}
\* the (project, sample) names add_fastq is called with
FastqTargets == {<<"PJB", "PJB1">>,
                 <<"Project_Project_PJB", "Sample_Sample_PJB1">>}
\* the (project, sample) names add_fastq_batch is called with
BatchTargets == {<<"PJB", "PJB1">>}
FastqNames == {"PJB1_S1_L001_R1_001.fastq.gz",
               "PJB1_input_S1_L001_R1_001.fastq.gz"}
FastqBases == {"PJB1_GCCAAT"}
FastqExts == {"fastq.gz"}
BatchLanes == {Lanes(<<1, 4, 5>>), None}
UndeterminedLanes == {Lanes(<<1, 2>>), None}

\* what the filesystem holds that no instance made: a neighbouring directory,
\* and in some runs a directory at the instance's own target path
Outside ==
    (<<"other">> :> Dir) @@ (<<"other", "keep.txt">> :> File("kept"))
Foreign(name) ==
    (<<name>> :> Dir) @@ (<<name, "README">> :> File("not made by create"))

\* the (project key, sample key) pairs of a tree
SampleKeys(P) == UNION {{<<pd, sd>> : sd \in DOMAIN P[pd]} : pd \in DOMAIN P}

\* the fastq names a tree holds
TreeFastqs(P) == UNION {Range(P[t[1]][t[2]]) : t \in SampleKeys(P)}

Call(op, args, res) ==
    [op |-> op, args |-> args, res |-> res,
     was_created |-> self_created, was_materialized |-> materialized,
     was_pending |-> pending]

(***************************************************************************)
(* Construction: MockIlluminaRun.__init__, MockIlluminaData.__init__.      *)
(***************************************************************************)
InitRun ==
    /\ kind = "MockIlluminaRun"
    /\ self_name = "151125_AB12345_001_CD256X"
    /\ self_platform \in Platforms
    /\ self_package = ""
    /\ self_paired_end = FALSE
    /\ arg_no_lane_splitting = FALSE
    /\ self_no_lane_splitting = FALSE

InitData ==
    /\ kind = "MockIlluminaData"
    /\ self_name = "130904_PJB_XXXXX"
    /\ self_platform = ""
    /\ self_package \in {"casava", "bcl2fastq2"}
    /\ self_paired_end \in BOOLEAN
    /\ arg_no_lane_splitting \in BOOLEAN
    /\ self_no_lane_splitting =
           IF self_package = "bcl2fastq2" THEN arg_no_lane_splitting ELSE FALSE

Init ==
    /\ InitData \/ InitRun
    /\ self_created = FALSE
    /\ self_projects = EmptyDict
    /\ fs \in {Outside, Outside @@ Foreign(self_name)}
    /\ ncalls = 0
    /\ materialized = FALSE
    /\ pending = {}
    /\ lastOp = [op |-> "__init__", args |-> <<>>, res |-> "",
                 was_created |-> FALSE, was_materialized |-> FALSE,
                 was_pending |-> {}]
    /\ inst_pc = [i \in Instances |-> "idle"]
    /\ inst_created = [i \in Instances |-> FALSE]
    /\ tree_makers = {}

(***************************************************************************)
(* create and remove, of both classes.                                     *)
(***************************************************************************)
\* what the calls of create after the existence check leave behind
create_result(faultAt) ==
    IF kind = "MockIlluminaData"
    THEN Exec(fs, data_create_calls, 1, faultAt)
    ELSE IF faultAt = 0
    THEN [fs |-> fs @@ (dirn :> Dir) @@ run_tree(self_platform),
          err |-> "", done |-> 1 + Cardinality(DOMAIN run_tree(self_platform))]
    ELSE Exec(fs, run_head_calls(self_platform), 1, faultAt)

\* create without its existence check: it builds into whatever is there
create_merging(faultAt) ==
    /\ LET r == create_result(faultAt)
       IN  /\ fs' = r.fs
           /\ self_created' = (IF r.done >= 1 THEN TRUE ELSE self_created)
           /\ materialized' = (r.err = "")
           /\ pending' = (IF r.err = "" THEN {} ELSE pending)
           /\ lastOp' = Call("create", <<faultAt>>, r.err)
    /\ UNCHANGED <<kind, self_name, self_platform, self_package, self_paired_end,
                   self_no_lane_splitting, arg_no_lane_splitting,
                   self_projects, ncalls>>
    /\ UNCHANGED sharedVars

\* MockIlluminaRun.create, MockIlluminaData.create
create(faultAt) ==
    /\ IF exists(fs, dirn)
       THEN /\ lastOp' = Call("create", <<faultAt>>, "OSError: already exists")
            /\ UNCHANGED <<fs, self_created, materialized, pending>>
       ELSE LET r == create_result(faultAt)
            IN  /\ fs' = r.fs
                /\ self_created' = (IF r.done >= 1 THEN TRUE ELSE self_created)
                /\ materialized' = (r.err = "")
                /\ pending' = (IF r.err = "" THEN {} ELSE pending)
                /\ lastOp' = Call("create", <<faultAt>>, r.err)
    /\ UNCHANGED <<kind, self_name, self_platform, self_package, self_paired_end,
                   self_no_lane_splitting, arg_no_lane_splitting,
                   self_projects, ncalls>>
    /\ UNCHANGED sharedVars

\* MockIlluminaRun.remove, MockIlluminaData.remove
remove ==
    /\ IF self_created
       THEN LET r == rmtree(fs, dirn)
            IN  /\ fs' = r.fs
                /\ self_created' = (IF r.err = "" THEN FALSE ELSE self_created)
                /\ materialized' = (IF r.err = "" THEN FALSE ELSE materialized)
                /\ lastOp' = Call("remove", <<>>, r.err)
       ELSE /\ lastOp' = Call("remove", <<>>, "")
            /\ UNCHANGED <<fs, self_created, materialized>>
    /\ UNCHANGED <<kind, self_name, self_platform, self_package, self_paired_end,
                   self_no_lane_splitting, arg_no_lane_splitting,
                   self_projects, ncalls, pending>>
    /\ UNCHANGED sharedVars

(***************************************************************************)
(* The population calls of MockIlluminaData.                               *)
(***************************************************************************)
Populate(op, args, res, P) ==
    /\ kind = "MockIlluminaData"
    /\ ncalls < MaxCalls
    /\ ncalls' = ncalls + 1
    /\ self_projects' = P
    /\ pending' = (IF materialized
                   THEN pending \cup (TreeFastqs(P) \ TreeFastqs(self_projects))
                   ELSE pending)
    /\ lastOp' = Call(op, args, res)
    /\ UNCHANGED <<kind, fs, self_name, self_created, self_platform, self_package,
                   self_paired_end, self_no_lane_splitting, arg_no_lane_splitting,
                   materialized>>
    /\ UNCHANGED sharedVars

add_project(project_name) ==
    Populate("add_project", <<project_name>>, "",
             tree_add_project(self_projects, project_name))

add_sample(project_name, sample_name) ==
    Populate("add_sample", <<project_name, sample_name>>, "",
             tree_add_sample(self_projects, project_name, sample_name))

add_fastq(project_name, sample_name, fastq) ==
    Populate("add_fastq", <<project_name, sample_name, fastq>>, "",
             tree_add_fastq(self_projects, project_name, sample_name, fastq))

add_fastq_batch(project_name, sample_name, fastq_base, fastq_ext, lanes) ==
    IF batch_raises(self_no_lane_splitting, lanes)
    THEN Populate("add_fastq_batch",
                  <<project_name, sample_name, fastq_base, fastq_ext, lanes>>,
                  "TypeError", self_projects)
    ELSE Populate("add_fastq_batch",
                  <<project_name, sample_name, fastq_base, fastq_ext, lanes>>, "",
                  tree_add_fastq_batch(self_projects, self_paired_end,
                                       self_no_lane_splitting, project_name,
                                       sample_name, fastq_base, fastq_ext, lanes))

add_undetermined(lanes) ==
    IF batch_raises(self_no_lane_splitting, lanes)
    THEN Populate("add_undetermined", <<lanes>>, "TypeError", self_projects)
    ELSE Populate("add_undetermined", <<lanes>>, "",
                  tree_add_undetermined(self_projects, self_package,
                                        self_paired_end, self_no_lane_splitting,
                                        lanes))

Next ==
    \/ \E faultAt \in 0..MaxFaultAt : create(faultAt)
    \/ remove
    \/ \E pn \in ProjectNames : add_project(pn)
    \/ \E t \in SampleTargets : add_sample(t[1], t[2])
    \/ \E t \in FastqTargets, fq \in FastqNames : add_fastq(t[1], t[2], fq)
    \/ \E t \in BatchTargets, fb \in FastqBases, fe \in FastqExts,
          lanes \in BatchLanes :
          add_fastq_batch(t[1], t[2], fb, fe, lanes)
    \/ \E lanes \in UndeterminedLanes : add_undetermined(lanes)

Spec == Init /\ [][Next]_vars

(***************************************************************************)
(* Construction as a step: the program starts without an instance and      *)
(* calls one of the two constructors, which raises on a value it does not  *)
(* know; the caller then holds no instance.                                *)
(***************************************************************************)
NoInstance == "none"
PlatformArgs == Platforms \cup {"ga2x"}
PackageArgs == {"casava", "bcl2fastq2", "bcl2fastq"}

InitConstruct ==
    /\ kind = NoInstance
    /\ self_name = ""
    /\ self_platform = ""
    /\ self_package = ""
    /\ self_paired_end = FALSE
    /\ arg_no_lane_splitting = FALSE
    /\ self_no_lane_splitting = FALSE
    /\ self_created = FALSE
    /\ self_projects = EmptyDict
    /\ fs = Outside
    /\ ncalls = 0
    /\ materialized = FALSE
    /\ pending = {}
    /\ lastOp = [op |-> "", args |-> <<>>, res |-> "",
                 was_created |-> FALSE, was_materialized |-> FALSE,
                 was_pending |-> {}]
    /\ inst_pc = [i \in Instances |-> "idle"]
    /\ inst_created = [i \in Instances |-> FALSE]
    /\ tree_makers = {}

\* MockIlluminaRun.__init__ that takes any platform
Run_init_any(platform) ==
    /\ kind = NoInstance
    /\ kind' = "MockIlluminaRun"
    /\ self_name' = "151125_AB12345_001_CD256X"
    /\ self_platform' = platform
    /\ self_created' = FALSE
    /\ lastOp' = Call("__init__", <<"MockIlluminaRun", platform>>, "")
    /\ UNCHANGED <<fs, self_package, self_paired_end, self_no_lane_splitting,
                   arg_no_lane_splitting, self_projects, ncalls, materialized,
                   pending>>
    /\ UNCHANGED sharedVars

\* MockIlluminaRun.__init__
Run_init(platform) ==
    /\ kind = NoInstance
    /\ IF platform \notin {"miseq", "hiseq", "nextseq"}
       THEN /\ lastOp' = Call("__init__", <<"MockIlluminaRun", platform>>, "Exception")
            /\ UNCHANGED <<kind, self_name, self_platform, self_created>>
       ELSE /\ kind' = "MockIlluminaRun"
            /\ self_name' = "151125_AB12345_001_CD256X"
            /\ self_platform' = platform
            /\ self_created' = FALSE
            /\ lastOp' = Call("__init__", <<"MockIlluminaRun", platform>>, "")
    /\ UNCHANGED <<fs, self_package, self_paired_end, self_no_lane_splitting,
                   arg_no_lane_splitting, self_projects, ncalls, materialized,
                   pending>>
    /\ UNCHANGED sharedVars

\* MockIlluminaData.__init__
Data_init(package, paired_end, no_lane_splitting) ==
    /\ kind = NoInstance
    /\ IF package \notin {"casava", "bcl2fastq2"}
       THEN /\ lastOp' = Call("__init__", <<"MockIlluminaData", package>>, "Exception")
            /\ UNCHANGED <<kind, self_name, self_package, self_paired_end,
                           self_no_lane_splitting, arg_no_lane_splitting,
                           self_created, self_projects>>
       ELSE /\ kind' = "MockIlluminaData"
            /\ self_name' = "130904_PJB_XXXXX"
            /\ self_package' = package
            /\ self_paired_end' = paired_end
            /\ arg_no_lane_splitting' = no_lane_splitting
            /\ self_no_lane_splitting' =
                   (IF package = "bcl2fastq2" THEN no_lane_splitting ELSE FALSE)
            /\ self_created' = FALSE
            /\ self_projects' = EmptyDict
            /\ lastOp' = Call("__init__", <<"MockIlluminaData", package>>, "")
    /\ UNCHANGED <<fs, self_platform, ncalls, materialized, pending>>
    /\ UNCHANGED sharedVars

\* the calls that need an instance
OnInstance == kind # NoInstance /\ Next

NextConstruct ==
    \/ \E platform \in PlatformArgs : Run_init(platform)
    \/ \E package \in PackageArgs, pe \in BOOLEAN, nls \in BOOLEAN :
          Data_init(package, pe, nls)
    \/ OnInstance

SpecConstruct == InitConstruct /\ [][NextConstruct]_vars

(***************************************************************************)
(* Two instances constructed with the same name and top_dir, each used by  *)
(* its own thread of control: create is its three parts (the existence     *)
(* check, the mkdir of the top-level directory with the assignment of the  *)
(* flag, the building of the tree below), and a part of one instance can   *)
(* run between two parts of the other's.  Both instances are of the class  *)
(* and configuration of the state, with an empty tree; of the platforms    *)
(* the NextSeq, whose tree is the smallest.                                *)
(***************************************************************************)
InitShared ==
    /\ Init
    /\ fs = Outside
    /\ kind = "MockIlluminaRun" => self_platform = "nextseq"
    /\ kind = "MockIlluminaData" => ~self_paired_end /\ ~arg_no_lane_splitting

\* create: what follows self._created = True
shared_build(F) ==
    IF kind = "MockIlluminaData"
    THEN Exec(F, Tail(data_create_calls), 1, 0)
    ELSE LET r == Exec(F, Tail(run_head_calls(self_platform)), 1, 0)
         IN  IF r.err # "" THEN r
             ELSE [fs |-> run_tree(self_platform) @@ r.fs, err |-> "",
                   done |-> Cardinality(DOMAIN run_tree(self_platform))]

\* create: if os.path.exists(self.dirn): raise OSError
create_exists(i) ==
    /\ inst_pc[i] = "idle"
    /\ IF exists(fs, dirn)
       THEN /\ lastOp' = Call("create", <<i>>, "OSError: already exists")
            /\ UNCHANGED inst_pc
       ELSE /\ lastOp' = Call("create.exists", <<i>>, "")
            /\ inst_pc' = [inst_pc EXCEPT ![i] = "checked"]
    /\ UNCHANGED <<kind, fs, self_name, self_created, self_platform, self_package,
                   self_paired_end, self_no_lane_splitting, arg_no_lane_splitting,
                   self_projects, ncalls, materialized, pending,
                   inst_created, tree_makers>>

\* create: bcftbx.utils.mkdir(self.dirn); self._created = True
create_mkdir(i) ==
    /\ inst_pc[i] = "checked"
    /\ LET r == mkdir(fs, dirn)
       IN  /\ fs' = r.fs
           /\ inst_created' = (IF r.err = "" THEN [inst_created EXCEPT ![i] = TRUE]
                               ELSE inst_created)
           /\ inst_pc' = [inst_pc EXCEPT ![i] = IF r.err = "" THEN "made" ELSE "idle"]
           /\ lastOp' = Call("create.mkdir", <<i>>, r.err)
    /\ UNCHANGED <<kind, self_name, self_created, self_platform, self_package,
                   self_paired_end, self_no_lane_splitting, arg_no_lane_splitting,
                   self_projects, ncalls, materialized, pending, tree_makers>>

\* create: the tree below the top-level directory
create_build(i) ==
    /\ inst_pc[i] = "made"
    /\ LET r == shared_build(fs)
       IN  /\ fs' = r.fs
           /\ tree_makers' = (IF r.err = "" THEN tree_makers \cup {i} ELSE tree_makers)
           /\ lastOp' = Call("create", <<i>>, r.err)
    /\ inst_pc' = [inst_pc EXCEPT ![i] = "idle"]
    /\ UNCHANGED <<kind, self_name, self_created, self_platform, self_package,
                   self_paired_end, self_no_lane_splitting, arg_no_lane_splitting,
                   self_projects, ncalls, materialized, pending, inst_created>>

\* remove, of one of the two instances
remove_shared(i) ==
    /\ inst_pc[i] = "idle"
    /\ IF inst_created[i]
       THEN LET r == rmtree(fs, dirn)
            IN  /\ fs' = r.fs
                /\ inst_created' = (IF r.err = "" THEN [inst_created EXCEPT ![i] = FALSE]
                                    ELSE inst_created)
                /\ tree_makers' = (IF r.err = "" THEN {} ELSE tree_makers)
                /\ lastOp' = Call("remove", <<i>>, r.err)
       ELSE /\ lastOp' = Call("remove", <<i>>, "")
            /\ UNCHANGED <<fs, inst_created, tree_makers>>
    /\ UNCHANGED <<kind, self_name, self_created, self_platform, self_package,
                   self_paired_end, self_no_lane_splitting, arg_no_lane_splitting,
                   self_projects, ncalls, materialized, pending, inst_pc>>

NextShared ==
    \/ \E i \in Instances : create_exists(i)
    \/ \E i \in Instances : create_mkdir(i)
    \/ \E i \in Instances : create_build(i)
    \/ \E i \in Instances : remove_shared(i)

SpecShared == InitShared /\ [][NextShared]_vars

(***************************************************************************)
(* Properties.                                                             *)
(***************************************************************************)
PopulationOps == {"add_project", "add_sample", "add_fastq", "add_fastq_batch",
                  "add_undetermined"}

\* the part of a filesystem that lies outside the instance's directory
OutsideOf(F) == [p \in {q \in DOMAIN F : ~Under(q, dirn)} |-> F[p]]

\* the files below the unaligned directory
UnalignedFiles(F) ==
    {p \in DOMAIN F : Under(p, unaligned_dir) /\ F[p].type = "file"}

\* the names of the files below the unaligned directory
DiskNames(F) == {p[Len(p)] : p \in UnalignedFiles(F)}

\* every fastq name of the tree is the name of a file below the unaligned
\* directory, and every file there bears the name of a fastq of the tree
OnDisk(F, P) == DiskNames(F) = TreeFastqs(P)

\* C1: when top_dir/name exists as create is called (of either class), the
\* call raises the already-exists error, the filesystem is left exactly as it
\* was, and the created flag keeps its value.
C1_ExistingTargetRefused ==
    [][(lastOp'.op = "create" /\ exists(fs, dirn))
         => /\ lastOp'.res = "OSError: already exists"
            /\ fs' = fs
            /\ self_created' = self_created]_vars

\* create was refused over a directory the instance did not make, whose
\* contents are still there
C1_Witness ==
    /\ lastOp.op = "create"
    /\ lastOp.res = "OSError: already exists"
    /\ ~lastOp.was_created
    /\ <<self_name, "README">> \in DOMAIN fs
    /\ fs[<<self_name, "README">>] = File("not made by create")

\* C2: created is true only if the latest create completed and no remove has
\* succeeded since; a create that ends in an error (existing target, or an
\* error raised while building below the top-level directory) leaves created
\* false.
C2_CreatedOnlyAfterSuccess ==
    /\ self_created => materialized
    /\ (lastOp.op = "create" /\ lastOp.res # "") => ~self_created

\* C3: remove on an instance that was never materialized, or that has been
\* removed, raises nothing, leaves created false and leaves the filesystem as
\* it was.
C3_RemoveNoOpUnlessMaterialized ==
    [][(lastOp'.op = "remove" /\ ~materialized)
         => /\ lastOp'.res = ""
            /\ ~self_created'
            /\ fs' = fs]_vars

\* C4: a create that succeeds adds paths at and under top_dir/name only, and
\* a remove that follows it immediately deletes exactly those paths and
\* resets created: the filesystem is again what it was before the create.
C4_CreateRemoveRoundTrip ==
    [][/\ (lastOp'.op = "create" /\ lastOp'.res = "")
            => /\ ~exists(fs, dirn)
               /\ isdir(fs', dirn)
               /\ OutsideOf(fs') = fs
       /\ (lastOp.op = "create" /\ lastOp.res = "" /\ lastOp'.op = "remove")
            => /\ lastOp'.res = ""
               /\ ~self_created'
               /\ fs' = OutsideOf(fs)
               /\ \A p \in DOMAIN fs' : ~Under(p, dirn)]_vars

\* a NextSeq run was made in full and has been removed again
C4_Witness ==
    /\ kind = "MockIlluminaRun"
    /\ self_platform = "nextseq"
    /\ lastOp.op = "remove"
    /\ lastOp.was_materialized
    /\ ~self_created
    /\ fs = Outside

\* C5: the population calls leave the filesystem alone, also after a create:
\* no fastq name added since the create is on disk while the tree made by that
\* create stands; a create that follows a remove of the instance's tree
\* succeeds and puts on disk the fastqs of the tree as it is at that time.
C5_EditsReachDiskOnRecreate ==
    [][/\ (lastOp'.op \in PopulationOps) => fs' = fs
       /\ materialized' => pending' \cap DiskNames(fs') = {}
       /\ (/\ lastOp.op = "remove" /\ lastOp.was_created /\ lastOp.res = ""
           /\ lastOp'.op = "create" /\ lastOp'.args = <<0>>)
            => /\ lastOp'.res = ""
               /\ self_created'
               /\ OnDisk(fs', self_projects)]_vars

\* fastqs added after a create, which that tree on disk never held, are on
\* disk now that the tree has been removed and created again
C5_Witness ==
    /\ lastOp.op = "create"
    /\ lastOp.res = ""
    /\ lastOp.was_pending # {}
    /\ lastOp.was_pending \subseteq DiskNames(fs)
    /\ OnDisk(fs, self_projects)

\* names that carry no "Project_" / "Sample_" prefix of their own
BareProjectNames == {pn \in ProjectNames : ~startswith(pn, "Project_")}
BareSampleNames == {t[2] : t \in {u \in SampleTargets : ~startswith(u[2], "Sample_")}}

\* add_sample with the prefixed names and with the names as given build the
\* same tree
SameEntity(P, X, Y) ==
    tree_add_sample(P, "Project_" \o X, "Sample_" \o Y) = tree_add_sample(P, X, Y)

\* C6 as stated: for all names X and Y, add_sample("Project_"+X, "Sample_"+Y)
\* and add_sample(X, Y) refer to the same project and sample; here for the
\* names X, Y the last add_sample was called with.
C6_SameEntityForAllNames ==
    (kind = "MockIlluminaData" /\ lastOp.op = "add_sample")
        => SameEntity(self_projects, lastOp.args[1], lastOp.args[2])

\* C6, amended: for all names X not beginning with "Project_" and Y not
\* beginning with "Sample_", each of add_sample(X, Y), add_sample("Project_"+X,
\* Y), add_sample(X, "Sample_"+Y), add_sample("Project_"+X, "Sample_"+Y) makes
\* the one project X hold the one sample Y and changes nothing else; and
\* add_project or add_sample on an entry that is there leaves the tree, the
\* fastq names included, as it was.
C6_CanonicalAndIdempotent ==
    kind = "MockIlluminaData" =>
      LET P == self_projects IN
      /\ \A X \in BareProjectNames, Y \in BareSampleNames :
           /\ SameEntity(P, X, Y)
           /\ \A a \in {X, "Project_" \o X}, b \in {Y, "Sample_" \o Y} :
                LET Q == tree_add_sample(P, a, b)
                IN  /\ DOMAIN Q = DOMAIN P \cup {X}
                    /\ DOMAIN Q[X] = (IF X \in DOMAIN P THEN DOMAIN P[X] ELSE {})
                                       \cup {Y}
                    /\ \A pd \in DOMAIN P : \A sd \in DOMAIN P[pd] :
                         Q[pd][sd] = P[pd][sd]
                    /\ \A pd \in DOMAIN P \ {X} : Q[pd] = P[pd]
           /\ \A a \in {X, "Project_" \o X} :
                LET Q == tree_add_project(P, a)
                IN  /\ DOMAIN Q = DOMAIN P \cup {X}
                    /\ \A pd \in DOMAIN P : Q[pd] = P[pd]
      /\ \A pn \in ProjectNames, t \in SampleTargets :
           LET Q1 == tree_add_project(P, pn)
               Q2 == tree_add_sample(P, t[1], t[2])
           IN  /\ tree_add_project(Q1, pn) = Q1
               /\ tree_add_sample(Q2, t[1], t[2]) = Q2
               /\ tree_add_project(Q2, t[1]) = Q2

\* two calls were made, the later with the prefixed names, and the tree holds
\* one project with one sample
C6_Witness ==
    /\ ncalls = 2
    /\ lastOp.op = "add_sample"
    /\ lastOp.args = <<"Project_PJB", "Sample_PJB1">>
    /\ DOMAIN self_projects = {"PJB"}
    /\ DOMAIN self_projects["PJB"] = {"PJB1"}
    /\ self_projects["PJB"]["PJB1"] # <<>>

\* C7: projects returns exactly the keys of the tree, each once, ascending,
\* and samples_in_project(p) exactly the sample keys of project p, each once,
\* ascending (p addressed by its prefixed name, which __project_dir maps to p).
C7_AccessorsReturnKeys ==
    kind = "MockIlluminaData" =>
      /\ projects = SortedSeq(DOMAIN self_projects)
      /\ \A pd \in DOMAIN self_projects :
           samples_in_project("Project_" \o pd) = SortedSeq(DOMAIN self_projects[pd])

\* C8: every sample's fastq names are in ascending order with no name twice.
C8_FastqsStrictlyAscending ==
    \A t \in SampleKeys(self_projects) :
        LET fastqs == self_projects[t[1]][t[2]]
        IN  \A i \in 1..(Len(fastqs) - 1) : StrLess(fastqs[i], fastqs[i + 1])

\* where the legacy and the modern layout may put fastq f of sample sd of
\* project pd
LayoutPaths(package, pd, sd, f) ==
    IF package = "casava"
    THEN {<<self_name, "Unaligned",
            IF pd = "Undetermined_indices" THEN pd ELSE "Project_" \o pd,
            "Sample_" \o sd, f>>}
    ELSE IF pd = "Undetermined_indices"
    THEN {<<self_name, "Unaligned", f>>, <<self_name, "Unaligned", sd, f>>}
    ELSE {<<self_name, "Unaligned", pd, f>>, <<self_name, "Unaligned", pd, sd, f>>}

\* C9: right after a create that succeeded, every fastq name fastqs_in_sample
\* returns for a sample is an empty file at a place the layout prescribes for
\* that sample, and every file below the unaligned directory is such a file.
C9_DiskFilesAreTheFastqs ==
    (kind = "MockIlluminaData" /\ lastOp.op = "create" /\ lastOp.res = "") =>
      /\ \A t \in SampleKeys(self_projects) :
           LET names == fastqs_in_sample("Project_" \o t[1], "Sample_" \o t[2])
           IN  \A i \in 1..Len(names) :
                 \E q \in LayoutPaths(self_package, t[1], t[2], names[i]) :
                    q \in DOMAIN fs /\ fs[q] = File("")
      /\ \A p \in UnalignedFiles(fs) :
           \E t \in SampleKeys(self_projects) :
              LET names == fastqs_in_sample("Project_" \o t[1], "Sample_" \o t[2])
              IN  \E i \in 1..Len(names) :
                     p \in LayoutPaths(self_package, t[1], t[2], names[i])

\* a paired-end tree without lane splitting, holding a sample's fastqs and
\* the undetermined reads, has just been created
C9_Witness ==
    /\ lastOp.op = "create"
    /\ lastOp.res = ""
    /\ self_package = "bcl2fastq2"
    /\ self_paired_end
    /\ self_no_lane_splitting
    /\ has_undetermined
    /\ "PJB" \in DOMAIN self_projects
    /\ Cardinality(UnalignedFiles(fs)) = 4

\* how a lane and a read appear in a fastq name
LaneToken(lane) ==
    CASE lane = 1 -> "L001" [] lane = 2 -> "L002" [] lane = 3 -> "L003"
      [] lane = 4 -> "L004" [] lane = 5 -> "L005" [] lane = 6 -> "L006"
      [] lane = 7 -> "L007" [] lane = 8 -> "L008"
ReadToken(read) == IF read = 1 THEN "R1" ELSE "R2"

\* how often name occurs in the sequence names
Count(names, name) == Cardinality({i \in 1..Len(names) : names[i] = name})

\* the names a batch is to add, each with the number of times it is added
ExpectedBatch(splitting, paired, fastq_base, fastq_ext, lanes) ==
    LET reads == IF paired THEN {1, 2} ELSE {1}
        laned(i, r) == fastq_base \o "_" \o LaneToken(lanes.seq[i]) \o "_"
                          \o ReadToken(r) \o "_001." \o fastq_ext
        unlaned(r) == fastq_base \o "_" \o ReadToken(r) \o "_001." \o fastq_ext
        names == IF splitting
                 THEN {laned(i, r) : i \in 1..Len(lanes.seq), r \in reads}
                 ELSE {unlaned(r) : r \in reads}
    IN  [n \in names |->
            IF splitting
            THEN Cardinality({x \in (1..Len(lanes.seq)) \X reads : laned(x[1], x[2]) = n})
            ELSE 1]

\* C10: a batch addition that succeeds adds to the named sample one name
\* <base>_L<lane, 3 digits>_R<read>_001.<ext> per lane and read when lane
\* splitting is in effect (legacy layout whatever no_lane_splitting was given,
\* or modern layout without it), and one name <base>_R<read>_001.<ext> per
\* read, whatever the lanes, in the modern layout with no_lane_splitting; reads
\* are 1, and 2 as well iff paired-end.  Nothing else in the tree changes.
C10_BatchNames ==
    [][(lastOp'.op = "add_fastq_batch" /\ lastOp'.res = "") =>
         LET a == lastOp'.args
             pd == project_dir(a[1])
             sd == sample_dir(a[2])
             P == self_projects
             Q == self_projects'
             old == IF <<pd, sd>> \in SampleKeys(P) THEN P[pd][sd] ELSE <<>>
             splitting == self_package = "casava" \/ ~arg_no_lane_splitting
             expected == ExpectedBatch(splitting, self_paired_end, a[3], a[4], a[5])
         IN  /\ SampleKeys(Q) = SampleKeys(P) \cup {<<pd, sd>>}
             /\ DOMAIN Q = DOMAIN P \cup {pd}
             /\ \A t \in SampleKeys(P) \ {<<pd, sd>>} : Q[t[1]][t[2]] = P[t[1]][t[2]]
             /\ \A n \in Range(old) \cup Range(Q[pd][sd]) \cup DOMAIN expected :
                  Count(Q[pd][sd], n) =
                     Count(old, n) + (IF n \in DOMAIN expected THEN expected[n] ELSE 0)
             /\ DOMAIN expected # {}]_vars

\* a paired-end batch over lanes 1, 4 and 5 went into a modern tree made with
\* no_lane_splitting, and the sample holds one name per read
C10_Witness ==
    /\ lastOp.op = "add_fastq_batch"
    /\ lastOp.res = ""
    /\ lastOp.args[5] = Lanes(<<1, 4, 5>>)
    /\ self_package = "bcl2fastq2"
    /\ arg_no_lane_splitting
    /\ self_paired_end
    /\ self_projects["PJB"]["PJB1"] =
          <<"PJB1_GCCAAT_R1_001.fastq.gz", "PJB1_GCCAAT_R2_001.fastq.gz">>

\* the samples add_undetermined is to touch and, for each, the names it is to
\* add with the number of times each is added
LaneSample(lane) == "lane" \o ToString(lane)

ExpectedUndetermined(package, splitting, paired, lanes) ==
    LET reads == IF paired THEN {1, 2} ELSE {1}
        base(lane) == IF package = "casava"
                      THEN "lane" \o ToString(lane) \o "_Undetermined"
                      ELSE "Undetermined_S0"
        laned(i, r) == base(lanes.seq[i]) \o "_" \o LaneToken(lanes.seq[i]) \o "_"
                          \o ReadToken(r) \o "_001.fastq.gz"
        unlaned(r) == "Undetermined_S0_" \o ReadToken(r) \o "_001.fastq.gz"
        idx == 1..Len(lanes.seq)
    IN  IF splitting
        THEN [s \in {LaneSample(lanes.seq[i]) : i \in idx} |->
                [n \in {laned(x[1], x[2]) :
                           x \in {y \in idx \X reads : LaneSample(lanes.seq[y[1]]) = s}} |->
                    Cardinality({x \in idx \X reads :
                                    /\ LaneSample(lanes.seq[x[1]]) = s
                                    /\ laned(x[1], x[2]) = n})]]
        ELSE [s \in {"undetermined"} |-> [n \in {unlaned(r) : r \in reads} |-> 1]]

\* C11: an add_undetermined that returns changes the undetermined project
\* only: with lane splitting each lane N of lanes gets the sample lane<N>,
\* which gains <base>_L<00N>_R<read>_001.fastq.gz per read, base being
\* lane<N>_Undetermined (casava) or Undetermined_S0 (bcl2fastq2); with
\* bcl2fastq2 and no_lane_splitting the one sample "undetermined" gains
\* Undetermined_S0_R<read>_001.fastq.gz per read, whatever lanes is.  No other
\* sample and no other project changes.
C11_UndeterminedNames ==
    [][(lastOp'.op = "add_undetermined" /\ lastOp'.res = "") =>
         LET P == self_projects
             Q == self_projects'
             U == "Undetermined_indices"
             splitting == self_package = "casava" \/ ~arg_no_lane_splitting
             expected == ExpectedUndetermined(self_package, splitting,
                                              self_paired_end, lastOp'.args[1])
             before == IF U \in DOMAIN P THEN DOMAIN P[U] ELSE {}
             old(s) == IF s \in before THEN P[U][s] ELSE <<>>
         IN  /\ DOMAIN Q = DOMAIN P \cup {U}
             /\ \A pd \in DOMAIN P \ {U} : Q[pd] = P[pd]
             /\ DOMAIN Q[U] = before \cup DOMAIN expected
             /\ \A s \in before \ DOMAIN expected : Q[U][s] = P[U][s]
             /\ \A s \in DOMAIN expected :
                  \A n \in Range(old(s)) \cup Range(Q[U][s]) \cup DOMAIN expected[s] :
                     Count(Q[U][s], n) =
                        Count(old(s), n)
                          + (IF n \in DOMAIN expected[s] THEN expected[s][n] ELSE 0)]_vars

\* single-end casava data after add_undetermined(lanes=(1,2)) and nothing else
C11_Witness ==
    /\ lastOp.op = "add_undetermined"
    /\ lastOp.res = ""
    /\ self_package = "casava"
    /\ ~self_paired_end
    /\ DOMAIN self_projects = {"Undetermined_indices"}
    /\ DOMAIN self_projects["Undetermined_indices"] = {"lane1", "lane2"}
    /\ self_projects["Undetermined_indices"]["lane1"] =
          <<"lane1_Undetermined_L001_R1_001.fastq.gz">>
    /\ self_projects["Undetermined_indices"]["lane2"] =
          <<"lane2_Undetermined_L002_R1_001.fastq.gz">>

\* the paths strictly below the unaligned directory
BelowUnaligned(F) == {p \in DOMAIN F : Under(p, unaligned_dir) /\ p # unaligned_dir}

\* the legacy directory of a project and of a sample
LegacyProjectPath(pd) ==
    <<self_name, "Unaligned",
      IF pd = "Undetermined_indices" THEN "Undetermined_indices" ELSE "Project_" \o pd>>
LegacySamplePath(pd, sd) == Append(LegacyProjectPath(pd), "Sample_" \o sd)

\* C12: right after a create of casava data that succeeded, every project P
\* is the directory Unaligned/Project_<P> (Unaligned/Undetermined_indices for
\* the undetermined project), every sample S of it the directory Sample_<S>
\* in that directory, with or without fastqs, every fastq of S an empty file
\* directly in the sample directory, and nothing else is below Unaligned.
C12_LegacyLayout ==
    (/\ kind = "MockIlluminaData" /\ self_package = "casava"
     /\ lastOp.op = "create" /\ lastOp.res = "") =>
      LET P == self_projects IN
      /\ \A pd \in DOMAIN P :
           /\ isdir(fs, LegacyProjectPath(pd))
           /\ \A sd \in DOMAIN P[pd] :
                /\ isdir(fs, LegacySamplePath(pd, sd))
                /\ \A f \in Range(P[pd][sd]) :
                     /\ Append(LegacySamplePath(pd, sd), f) \in DOMAIN fs
                     /\ fs[Append(LegacySamplePath(pd, sd), f)] = File("")
      /\ \A p \in BelowUnaligned(fs) :
           \E pd \in DOMAIN P :
              \/ p = LegacyProjectPath(pd)
              \/ \E sd \in DOMAIN P[pd] :
                   \/ p = LegacySamplePath(pd, sd)
                   \/ \E f \in Range(P[pd][sd]) : p = Append(LegacySamplePath(pd, sd), f)

\* a paired-end casava tree after add_fastq_batch("PJB","PJB1","PJB1_GCCAAT",
\* lanes=(1,4,5)) has been created: six files, all in Project_PJB/Sample_PJB1
C12_Witness ==
    /\ self_package = "casava"
    /\ self_paired_end
    /\ lastOp.op = "create"
    /\ lastOp.res = ""
    /\ ncalls = 1
    /\ Cardinality(UnalignedFiles(fs)) = 6
    /\ \A p \in UnalignedFiles(fs) :
          Parent(p) = <<self_name, "Unaligned", "Project_PJB", "Sample_PJB1">>

\* the projects other than the undetermined one
OrdinaryProjects(P) == DOMAIN P \ {"Undetermined_indices"}

\* fastq f of sample sd goes directly into the project directory
PlacedDirectly(sd, f) ==
    IlluminaFastq_sample_name(f) = sd \/ IlluminaFastq_sample_name(f) = "Undetermined"

\* C13: right after a create of bcl2fastq2 data that succeeded, every ordinary
\* project P is the directory Unaligned/<P>; each fastq f of its sample S is
\* an empty file in that directory if the sample name parsed from f is S or
\* "Undetermined", and otherwise an empty file in Unaligned/<P>/<S>/; the
\* directory Unaligned/<P>/<S> is there exactly if some fastq of S does not
\* match, whatever the number of such fastqs; nothing else is below
\* Unaligned/<P>.  (The sample names parsed are: PJB1 from
\* PJB1_S1_L001_R1_001.fastq.gz and from PJB1_GCCAAT_R2_001.fastq.gz,
\* PJB1_input from PJB1_input_S1_L001_R1_001.fastq.gz.)
C13_ModernPlacement ==
    (/\ kind = "MockIlluminaData" /\ self_package = "bcl2fastq2"
     /\ lastOp.op = "create" /\ lastOp.res = "") =>
      LET P == self_projects
          dirOf(pd) == <<self_name, "Unaligned", pd>>
          target(pd, sd, f) == IF PlacedDirectly(sd, f)
                               THEN Append(dirOf(pd), f)
                               ELSE dirOf(pd) \o <<sd, f>>
      IN
      /\ IlluminaFastq_sample_name("PJB1_S1_L001_R1_001.fastq.gz") = "PJB1"
      /\ IlluminaFastq_sample_name("PJB1_GCCAAT_R2_001.fastq.gz") = "PJB1"
      /\ IlluminaFastq_sample_name("PJB1_input_S1_L001_R1_001.fastq.gz") = "PJB1_input"
      /\ \A pd \in OrdinaryProjects(P) :
           /\ isdir(fs, dirOf(pd))
           /\ \A sd \in DOMAIN P[pd] :
                /\ \A f \in Range(P[pd][sd]) :
                     /\ target(pd, sd, f) \in DOMAIN fs
                     /\ fs[target(pd, sd, f)] = File("")
                /\ isdir(fs, Append(dirOf(pd), sd))
                     <=> \E f \in Range(P[pd][sd]) : ~PlacedDirectly(sd, f)
                /\ Append(dirOf(pd), sd) \in DOMAIN fs
                     => isdir(fs, Append(dirOf(pd), sd))
           /\ \A p \in {q \in DOMAIN fs : Under(q, dirOf(pd)) /\ q # dirOf(pd)} :
                \E sd \in DOMAIN P[pd] :
                   \/ p = Append(dirOf(pd), sd)
                   \/ \E f \in Range(P[pd][sd]) : p = target(pd, sd, f)

\* a sample with two fastqs, neither of which parses to the sample's name,
\* has been created: both are in the one directory made for the sample
C13_Witness ==
    /\ self_package = "bcl2fastq2"
    /\ lastOp.op = "create"
    /\ lastOp.res = ""
    /\ DOMAIN self_projects = {"Project_PJB"}
    /\ Len(self_projects["Project_PJB"]["Sample_PJB1"]) = 2
    /\ UnalignedFiles(fs) =
          {<<self_name, "Unaligned", "Project_PJB", "Sample_PJB1", f>> : f \in FastqNames}

\* the fastq names of the undetermined project
UndeterminedFastqs(P) ==
    IF "Undetermined_indices" \in DOMAIN P
    THEN UNION {Range(P["Undetermined_indices"][sd]) :
                   sd \in DOMAIN P["Undetermined_indices"]}
    ELSE {}

\* C14: a create of bcl2fastq2 data that holds undetermined reads, called
\* with the target absent and no error from the filesystem, succeeds; after
\* it the files directly in Unaligned are exactly the undetermined fastqs, all
\* empty, and no path of the tree is named Undetermined_indices or after a
\* sample of the undetermined project (lane<N>, undetermined).
C14_ModernUndetermined ==
    [][(/\ lastOp'.op = "create" /\ lastOp'.args = <<0>> /\ ~exists(fs, dirn)
        /\ self_package = "bcl2fastq2" /\ UndeterminedFastqs(self_projects) # {}) =>
         LET P == self_projects
             direct == {p \in DOMAIN fs' :
                           Parent(p) = <<self_name, "Unaligned">> /\ fs'[p].type = "file"}
         IN  /\ lastOp'.res = ""
             /\ self_created'
             /\ {p[Len(p)] : p \in direct} = UndeterminedFastqs(P)
             /\ \A p \in direct : fs'[p] = File("")
             /\ \A p \in {q \in DOMAIN fs' : Under(q, dirn)} :
                  p[Len(p)] \notin {"Undetermined_indices"}
                                     \cup DOMAIN P["Undetermined_indices"]]_vars

\* paired-end bcl2fastq2 data with lane splitting, after
\* add_undetermined(lanes=(1,2)) and create: four files directly in Unaligned
C14_Witness ==
    /\ self_package = "bcl2fastq2"
    /\ ~self_no_lane_splitting
    /\ self_paired_end
    /\ lastOp.op = "create"
    /\ lastOp.res = ""
    /\ DOMAIN self_projects = {"Undetermined_indices"}
    /\ DOMAIN self_projects["Undetermined_indices"] = {"lane1", "lane2"}
    /\ {p \in DOMAIN fs : Under(p, unaligned_dir) /\ p # unaligned_dir} =
          {<<self_name, "Unaligned", f>> :
              f \in {"Undetermined_S0_L001_R1_001.fastq.gz",
                     "Undetermined_S0_L001_R2_001.fastq.gz",
                     "Undetermined_S0_L002_R1_001.fastq.gz",
                     "Undetermined_S0_L002_R2_001.fastq.gz"}}

\* the undetermined project of a tree: its samples with their fastqs
UndeterminedPart(P) ==
    IF "Undetermined_indices" \in DOMAIN P THEN <<P["Undetermined_indices"]>> ELSE <<>>

\* the ordinary projects of a tree with their samples and fastqs
OrdinaryPart(P) == [pd \in OrdinaryProjects(P) |-> P[pd]]

\* the names that __project_dir maps to the reserved key
ReservedNames == {"Undetermined_indices", "Project_Undetermined_indices"}

C16_ConstructionValidates ==
    [][/\ lastOp'.op = "__init__" =>
            LET cls == lastOp'.args[1]
                val == lastOp'.args[2]
                valid == \/ cls = "MockIlluminaRun" /\ val \in {"miseq", "hiseq", "nextseq"}
                         \/ cls = "MockIlluminaData" /\ val \in {"casava", "bcl2fastq2"}
            IN  /\ fs' = fs
                /\ valid => /\ lastOp'.res = ""
                            /\ kind' = cls
                            /\ ~self_created'
                            /\ self_projects' = EmptyDict
                            /\ cls = "MockIlluminaRun" => self_platform' = val
                            /\ cls = "MockIlluminaData" => self_package' = val
                /\ ~valid => /\ lastOp'.res = "Exception"
                             /\ kind' = NoInstance
       /\ kind' = NoInstance => (lastOp'.op = "__init__" /\ fs' = fs)]_vars

\* MockIlluminaRun was called with a platform it does not know: it raised,
\* there is no instance and the disk is as it was
C16_Witness ==
    /\ lastOp.op = "__init__"
    /\ lastOp.args = <<"MockIlluminaRun", "ga2x">>
    /\ lastOp.res = "Exception"
    /\ kind = NoInstance
    /\ fs = Outside

\* population alone: a MockIlluminaData instance on which only add_project,
\* add_sample, add_fastq and add_fastq_batch are called
InitOrder == Init /\ kind = "MockIlluminaData" /\ fs = Outside

NextOrder ==
    \/ \E pn \in ProjectNames : add_project(pn)
    \/ \E t \in SampleTargets : add_sample(t[1], t[2])
    \/ \E t \in FastqTargets, fq \in FastqNames : add_fastq(t[1], t[2], fq)
    \/ \E t \in BatchTargets, fb \in FastqBases, fe \in FastqExts,
          lanes \in BatchLanes :
          add_fastq_batch(t[1], t[2], fb, fe, lanes)

SpecOrder == InitOrder /\ [][NextOrder]_vars

\* the calls whose order is exchanged: add_project, add_sample, add_fastq and
\* add_fastq_batch with every argument the model calls them with
OrderOps == {"add_project", "add_sample", "add_fastq", "add_fastq_batch"}
OrderCalls ==
    {[op |-> "add_project", args |-> <<pn>>] : pn \in ProjectNames}
    \cup {[op |-> "add_sample", args |-> t] : t \in SampleTargets}
    \cup {[op |-> "add_fastq", args |-> <<t[1], t[2], fq>>] :
             t \in FastqTargets, fq \in FastqNames}
    \cup {[op |-> "add_fastq_batch", args |-> <<t[1], t[2], x[1], x[2], x[3]>>] :
             t \in BatchTargets, x \in FastqBases \X FastqExts \X BatchLanes}

\* the tree a call leaves, given the tree it finds
ApplyCall(P, pe, nls, c) ==
    CASE c.op = "add_project" -> tree_add_project(P, c.args[1])
      [] c.op = "add_sample" -> tree_add_sample(P, c.args[1], c.args[2])
      [] c.op = "add_fastq" -> tree_add_fastq(P, c.args[1], c.args[2], c.args[3])
      [] c.op = "add_fastq_batch" ->
            IF batch_raises(nls, c.args[5]) THEN P
            ELSE tree_add_fastq_batch(P, pe, nls, c.args[1], c.args[2],
                                      c.args[3], c.args[4], c.args[5])

\* C17: two of the calls add_project, add_sample, add_fastq, add_fastq_batch
\* made in either order on any tree leave the same tree, project keys, sample
\* keys and fastq lists with their order.  projects, samples_in_project,
\* fastqs_in_sample and create read nothing of the population calls but this
\* tree, so they cannot tell the two orders apart; exchanging neighbours gives
\* every permutation of a sequence of calls.
C17_OrderIrrelevant ==
    [][lastOp'.op \in OrderOps =>
         \A a \in OrderCalls :
            LET b == [op |-> lastOp'.op, args |-> lastOp'.args]
                P_ba == ApplyCall(self_projects', self_paired_end,
                                  self_no_lane_splitting, a)
                P_ab == ApplyCall(ApplyCall(self_projects, self_paired_end,
                                            self_no_lane_splitting, a),
                                  self_paired_end, self_no_lane_splitting, b)
            IN  P_ab = P_ba]_vars

\* two fastqs were added to one sample, the one that sorts first last, and the
\* sample lists them in ascending order
C17_Witness ==
    /\ ncalls = 2
    /\ lastOp.op = "add_fastq"
    /\ lastOp.args = <<"PJB", "PJB1", "PJB1_S1_L001_R1_001.fastq.gz">>
    /\ fastqs_in_sample("PJB", "PJB1") =
          <<"PJB1_S1_L001_R1_001.fastq.gz", "PJB1_input_S1_L001_R1_001.fastq.gz">>

\* sub occurs in s
Contains(s, sub) ==
    \E i \in 1..(Len(s) - Len(sub) + 1) : SubSeq(s, i, i + Len(sub) - 1) = sub

\* the lane directories found directly under Data/Intensities/BaseCalls
LaneDirsOnDisk(F) ==
    {p[Len(p)] : p \in {q \in DOMAIN F : /\ Len(q) = Len(dirn) + 4
                                         /\ Parent(q) = dirn \o <<"Data", "Intensities", "BaseCalls">>
                                         /\ F[q].type = "dir"}}

\* the paths below the run root that bear a name
NamedBelowRoot(F, name) ==
    {p \in DOMAIN F : Under(p, dirn) /\ Len(p) > Len(dirn) /\ p[Len(p)] = name}

\* the lanes of a platform
PlatformLanes(platform) ==
    CASE platform = "miseq" -> {"L001"}
      [] platform = "hiseq" -> {"L001", "L002", "L003", "L004",
                                "L005", "L006", "L007", "L008"}
      [] platform = "nextseq" -> {"L001", "L002", "L003", "L004"}

\* C18: right after a MockIlluminaRun.create that succeeded, RunInfo.xml is a
\* file in the run root that names the run, Data/Intensities/BaseCalls is a
\* directory, a file SampleSheet.csv is there exactly for miseq and hiseq, a
\* directory InterOp exactly for nextseq, and the lane directories under
\* BaseCalls are L001 (miseq), L001..L008 (hiseq), L001..L004 (nextseq), as
\* many as the LaneCount of RunInfo.xml says.
C18_PlatformArtefacts ==
    [][(kind = "MockIlluminaRun" /\ lastOp'.op = "create" /\ lastOp'.res = "")
         => LET info == dirn \o <<"RunInfo.xml">>
                lanes == LaneDirsOnDisk(fs')
            IN  /\ info \in DOMAIN fs'
                /\ fs'[info].type = "file"
                /\ Contains(fs'[info].content, "Run Id=" \o self_name \o " ")
                /\ isdir(fs', dirn \o <<"Data", "Intensities", "BaseCalls">>)
                /\ self_platform \in {"miseq", "hiseq", "nextseq"}
                /\ (\E p \in NamedBelowRoot(fs', "SampleSheet.csv") : fs'[p].type = "file")
                      <=> self_platform \in {"miseq", "hiseq"}
                /\ isdir(fs', dirn \o <<"InterOp">>) <=> self_platform = "nextseq"
                /\ lanes = PlatformLanes(self_platform)
                /\ Contains(fs'[info].content,
                            "LaneCount=" \o FmtD(Cardinality(lanes)) \o " ")]_vars

\* a NextSeq run has just been made: InterOp and four lanes, no sample sheet
C18_Witness ==
    /\ kind = "MockIlluminaRun"
    /\ self_platform = "nextseq"
    /\ lastOp.op = "create"
    /\ lastOp.res = ""
    /\ isdir(fs, dirn \o <<"InterOp">>)
    /\ isdir(fs, dirn \o <<"Data", "Intensities", "BaseCalls", "L004">>)
    /\ dirn \o <<"Data", "Intensities", "BaseCalls", "SampleSheet.csv">> \notin DOMAIN fs

\* C19: of two instances on one path at most one has its created flag set, and
\* a remove that deletes the directory is the remove of the only instance
\* whose create built the tree in it.
C19_SharedPathOwnership ==
    [][/\ ~(inst_created'["a"] /\ inst_created'["b"])
       /\ \A i \in Instances :
             (lastOp'.op = "remove" /\ lastOp'.args = <<i>> /\ fs' # fs)
                => tree_makers \subseteq {i}]_vars

\* C20: every name projects returns is accepted by samples_in_project and
\* stands for a project of the tree, each project once; every name
\* samples_in_project returns for it is accepted by fastqs_in_sample and
\* stands for a sample of that project, each sample once; and what
\* fastqs_in_sample returns is that sample's list.
C20_AccessorNamesResolve ==
    kind = "MockIlluminaData" =>
        /\ Len(projects) = Cardinality(DOMAIN self_projects)
        /\ {project_dir(projects[i]) : i \in 1..Len(projects)} = DOMAIN self_projects
        /\ \A i \in 1..Len(projects) :
              LET p == projects[i]
                  names == samples_in_project(p)
              IN  /\ names # KeyError
                  /\ Len(names) = Cardinality(DOMAIN self_projects[project_dir(p)])
                  /\ {sample_dir(names[j]) : j \in 1..Len(names)}
                        = DOMAIN self_projects[project_dir(p)]
                  /\ \A j \in 1..Len(names) :
                        /\ fastqs_in_sample(p, names[j]) # KeyError
                        /\ fastqs_in_sample(p, names[j])
                              = self_projects[project_dir(p)][sample_dir(names[j])]

====
